---- MODULE Spec2Model ----
(***************************************************************************)
(* Model of app_emotion.py: the model-completion fallback cascade          *)
(* (list_available_models_safely, pick_best_model, safe_chat_completion),  *)
(* the keyword classifiers, the intervention router and the chat-input     *)
(* handler of the Streamlit script.                                        *)
(*                                                                         *)
(* Text is a sequence of one-character strings.  Characters outside ASCII  *)
(* are written as their code point ("U7126"), a line feed as "LF".         *)
(***************************************************************************)
EXTENDS Integers, Sequences, FiniteSets, TLC

VARIABLES
    cache,          \* st.cache_data entry of list_available_models_safely
    pc,             \* position of the script: idle, call, listed, loop, returned
                    \* (and start, given, classified, chosen, found, raised where the
                    \* classifiers and the router run alone)
    available,      \* safe_chat_completion: local available
    trial_order,    \* safe_chat_completion: local trial_order
    idx,            \* safe_chat_completion: position of the for loop in trial_order
    used_model,     \* safe_chat_completion: local used_model
    attempts,       \* the calls made to client.chat.completions.create, in order
    result,         \* the value safe_chat_completion returned
    listing,        \* what client.models.list() did for the list in available
    user_input,     \* chat input handler: user_input
    emotion,        \* chat input handler: emotion
    intent,         \* chat input handler: intent
    risk_score,     \* chat input handler: risk_score
    intervention_key, \* chat input handler: intervention_key
    mode,           \* sidebar: the chat mode of the radio button
    messages,       \* st.session_state.messages
    log,            \* st.session_state.log
    last_used_model, \* st.session_state.last_used_model
    case_formulation, \* st.session_state.case_formulation
    sidebar_info    \* sidebar: what "Model used (this turn)" shows in this run

resolverVars ==
    <<cache, pc, available, trial_order, idx, used_model, attempts, result, listing>>

turnVars == <<user_input, emotion, intent, risk_score, intervention_key>>

sessionVars == <<mode, messages, log, last_used_model, case_formulation, sidebar_info>>

vars == <<resolverVars, turnVars, sessionVars>>

\* Python's None
None == "None"

(***************************************************************************)
(* Bounds of the model                                                     *)
(***************************************************************************)
\* the models.list endpoint reports at most this many model ids
MaxListed == 3

\* a user message is made of at most this many phrases of Vocabulary
MaxWords == 2

\* a generated text is made of at most this many pieces of DisplayPieces
MaxPieces == 3

\* turns of a session
MaxTurns == 2

(***************************************************************************)
(* Text helpers                                                            *)
(***************************************************************************)
\* the characters str.isspace() accepts, among those the model uses
IsSpace(c) == c \in {" ", "LF", "TAB"}

\* re.sub(r'^\s+', '', s): s without its leading whitespace
RECURSIVE LStrip(_)
LStrip(s) == IF s # <<>> /\ IsSpace(Head(s)) THEN LStrip(Tail(s)) ELSE s

RECURSIVE RStrip(_)
RStrip(s) ==
    IF s # <<>> /\ IsSpace(s[Len(s)]) THEN RStrip(SubSeq(s, 1, Len(s) - 1)) ELSE s

\* str.strip()
Strip(s) == RStrip(LStrip(s))

(***************************************************************************)
(* Model discovery and graceful fallback                                   *)
(***************************************************************************)
PREFERRED_MODELS ==
    <<"gpt-5", "gpt-5-mini", "gpt-4.1", "gpt-4.1-mini", "gpt-4o", "gpt-4o-mini", "gpt-4-turbo">>

\* the model ids client.models.list() may report, in the order Python's sorted()
\* gives strings: the preferred ones and gpt-3.5-turbo, which is not preferred
ID_ORDER ==
    <<"gpt-3.5-turbo", "gpt-4-turbo", "gpt-4.1", "gpt-4.1-mini", "gpt-4o", "gpt-4o-mini",
      "gpt-5", "gpt-5-mini">>

Range(s) == {s[k] : k \in 1..Len(s)}

\* x in list
In(x, list) == \E k \in 1..Len(list) : list[k] = x

\* sorted([m.id for m in models.data])
SortedIds(ids) == SelectSeq(ID_ORDER, LAMBDA m : m \in ids)

\* what client.models.list() may do: raise, or report a set of model ids
ApiListings ==
    {[raised |-> TRUE, ids |-> {}]} \cup
    {[raised |-> FALSE, ids |-> S] : S \in {T \in SUBSET Range(ID_ORDER) : Cardinality(T) <= MaxListed}}

\* the body of list_available_models_safely for one outcome of client.models.list()
list_available_models_safely(reply) ==
    IF reply.raised THEN <<>> ELSE SortedIds(reply.ids)

\* mutant: walks available_ids instead of PREFERRED_MODELS, so the list's own
\* (sorted) order decides
pick_best_model_by_listing(available_ids) ==
    IF available_ids # <<>> /\ \E k \in 1..Len(available_ids) : In(available_ids[k], PREFERRED_MODELS)
    THEN LET k == CHOOSE j \in 1..Len(available_ids) :
                      /\ In(available_ids[j], PREFERRED_MODELS)
                      /\ \A h \in 1..(j - 1) : ~In(available_ids[h], PREFERRED_MODELS)
         IN  available_ids[k]
    ELSE PREFERRED_MODELS[1]

\* mutant: with nothing listed, falls back on the last preference, not the top one
pick_best_model_last_default(available_ids) ==
    IF available_ids # <<>> /\ \E k \in 1..Len(PREFERRED_MODELS) : In(PREFERRED_MODELS[k], available_ids)
    THEN LET k == CHOOSE j \in 1..Len(PREFERRED_MODELS) :
                      /\ In(PREFERRED_MODELS[j], available_ids)
                      /\ \A h \in 1..(j - 1) : ~In(PREFERRED_MODELS[h], available_ids)
         IN  PREFERRED_MODELS[k]
    ELSE PREFERRED_MODELS[Len(PREFERRED_MODELS)]

\* mutant: takes the first listed id whether or not it is a preferred one
pick_best_model_first_listed(available_ids) ==
    IF available_ids # <<>> THEN available_ids[1] ELSE PREFERRED_MODELS[1]

\* pick_best_model: the first preferred model present in available_ids, else the top preference
pick_best_model(available_ids) ==
    IF available_ids # <<>> /\ \E k \in 1..Len(PREFERRED_MODELS) : In(PREFERRED_MODELS[k], available_ids)
    THEN LET k == CHOOSE j \in 1..Len(PREFERRED_MODELS) :
                      /\ In(PREFERRED_MODELS[j], available_ids)
                      /\ \A h \in 1..(j - 1) : ~In(PREFERRED_MODELS[h], available_ids)
         IN  PREFERRED_MODELS[k]
    ELSE PREFERRED_MODELS[1]

\* mutant: the loop without its "not in trial_order" test
AppendAll(order, rest) == order \o rest

\* for m in PREFERRED_MODELS: if m not in trial_order: trial_order.append(m)
AppendMissing(order, rest) ==
    LET after[k \in 0..Len(rest)] ==
            IF k = 0 THEN order
            ELSE IF In(rest[k], after[k - 1]) THEN after[k - 1]
                 ELSE Append(after[k - 1], rest[k])
    IN  after[Len(rest)]

\* the trial_order safe_chat_completion builds from the listing it got
BuildTrialOrder(available_ids) ==
    LET best == pick_best_model(available_ids)
        start == IF best # "" THEN <<best>> ELSE <<>>
    IN  AppendMissing(start, PREFERRED_MODELS)

\* the fixed fallback text, kept in one piece: it has no whitespace at either end
\* and no bracket in it
friendly ==
    <<"Sorry, I ran into a model access or connectivity issue. Please try again later, or check the sidebar to see if gpt-4o / gpt-4o-mini are available.">>

\* no text: a failed call, or message.content is None
NoContent == <<"<None>">>

\* texts a model may produce in the resolver's own specification
ReplyTexts == {<<"o", "k">>, <<" ", "h", "i", "LF">>}

NoListing == [raised |-> FALSE, ids |-> {}]
NoCache == [valid |-> FALSE, value |-> <<>>, listing |-> NoListing]
NoResult == [text |-> NoContent, model |-> None]

\* no call of safe_chat_completion is under way
ResolverIdle ==
    /\ cache = NoCache
    /\ available = <<>>
    /\ trial_order = <<>>
    /\ idx = 1
    /\ used_model = None
    /\ attempts = <<>>
    /\ result = NoResult
    /\ listing = NoListing

ResolverInit ==
    /\ pc = "idle"
    /\ ResolverIdle

\* the locals of the chat input handler before any message
TurnInit ==
    /\ user_input = <<>>
    /\ emotion = None
    /\ intent = None
    /\ risk_score = 0
    /\ intervention_key = None

\* the working case formulation of a new session
EmptyFormulation == [themes |-> <<>>, patterns |-> <<>>, hypotheses |-> <<>>]

\* st.session_state.last_used_model or "No reply yet"
NoReplyYet == "No reply yet"

SidebarInfo(model) == IF model = None THEN NoReplyYet ELSE model

COUNSELOR == "Counselor Mode"
COMPANION == "Companion Mode"

\* the options of the Chat Mode radio button; the first is selected at the start
MODES == <<COUNSELOR, COMPANION>>

\* st.session_state as the script's first run sets it
SessionInit ==
    /\ mode = MODES[1]
    /\ messages = <<>>
    /\ log = <<>>
    /\ last_used_model = None
    /\ case_formulation = EmptyFormulation
    /\ sidebar_info = NoReplyYet

\* safe_chat_completion, its first line: available = list_available_models_safely(),
\* answered from the cache while the cached entry is valid
ListModelsFrom(listings) ==
    /\ pc = "call"
    /\ \E l \in listings :
          LET hit == cache.valid
              got == IF hit THEN cache.value ELSE list_available_models_safely(l)
              src == IF hit THEN cache.listing ELSE l
          IN  /\ available' = got
              /\ listing' = src
              /\ cache' = [valid |-> TRUE, value |-> got, listing |-> src]
    /\ pc' = "listed"
    /\ UNCHANGED <<trial_order, idx, used_model, attempts, result>>

ListModels == ListModelsFrom(ApiListings)

\* safe_chat_completion up to its loop: trial_order is built, used_model = None
BuildOrder ==
    /\ pc = "listed"
    /\ trial_order' = BuildTrialOrder(available)
    /\ used_model' = None
    /\ idx' = 1
    /\ attempts' = <<>>
    /\ pc' = "loop"
    /\ UNCHANGED <<cache, available, result, listing>>

\* st.cache_data(ttl=300): the cached listing expires
CacheExpire ==
    /\ cache.valid
    /\ cache' = NoCache
    /\ UNCHANGED <<pc, available, trial_order, idx, used_model, attempts, result, listing>>

\* mutant: the failure is not caught and leaves safe_chat_completion
AttemptFailEscapes(kind) ==
    /\ pc = "loop"
    /\ idx <= Len(trial_order)
    /\ pc' = "raised"
    /\ UNCHANGED <<cache, available, trial_order, idx, used_model, attempts, result, listing>>

\* one iteration of the loop that ends in the except branch: create() raised
\* (kind "raise"), or it returned and reading choices[0].message.content raised
\* (kind "nocontent", after used_model = m)
AttemptFail(kind) ==
    /\ pc = "loop"
    /\ idx <= Len(trial_order)
    /\ LET m == trial_order[idx]
       IN  /\ attempts' = Append(attempts, [model |-> m, ok |-> FALSE, content |-> NoContent])
           /\ used_model' = IF kind = "nocontent" THEN m ELSE used_model
    /\ idx' = idx + 1
    /\ UNCHANGED <<cache, pc, available, trial_order, result, listing>>

\* mutant: a successful call does not return; the loop goes on with the text kept
AttemptOkContinue(content) ==
    /\ pc = "loop"
    /\ idx <= Len(trial_order)
    /\ LET m == trial_order[idx]
       IN  /\ attempts' = Append(attempts, [model |-> m, ok |-> TRUE, content |-> content])
           /\ used_model' = m
           /\ result' = [text |-> Strip(content), model |-> m]
    /\ idx' = idx + 1
    /\ UNCHANGED <<cache, pc, available, trial_order, listing>>

\* mutant: the content is returned as generated, without .strip()
AttemptOkUnstripped(content) ==
    /\ pc = "loop"
    /\ idx <= Len(trial_order)
    /\ LET m == trial_order[idx]
       IN  /\ attempts' = Append(attempts, [model |-> m, ok |-> TRUE, content |-> content])
           /\ used_model' = m
           /\ result' = [text |-> content, model |-> m]
    /\ pc' = "returned"
    /\ UNCHANGED <<cache, available, trial_order, idx, listing>>

\* one iteration of the loop whose call succeeds: return content.strip(), used_model
AttemptOk(content) ==
    /\ pc = "loop"
    /\ idx <= Len(trial_order)
    /\ LET m == trial_order[idx]
       IN  /\ attempts' = Append(attempts, [model |-> m, ok |-> TRUE, content |-> content])
           /\ used_model' = m
           /\ result' = [text |-> Strip(content), model |-> m]
    /\ pc' = "returned"
    /\ UNCHANGED <<cache, available, trial_order, idx, listing>>

\* the loop is over: return friendly, used_model
Exhausted ==
    /\ pc = "loop"
    /\ idx > Len(trial_order)
    /\ result' = [text |-> friendly, model |-> used_model]
    /\ pc' = "returned"
    /\ UNCHANGED <<cache, available, trial_order, idx, used_model, attempts, listing>>

FailKinds == {"raise", "nocontent"}

\* a step of safe_chat_completion
ResolverStep ==
    \/ ListModels
    \/ BuildOrder
    \/ \E kind \in FailKinds : AttemptFail(kind)
    \/ \E content \in ReplyTexts : AttemptOk(content)
    \/ Exhausted

(***************************************************************************)
(* The resolver on its own: a caller invokes safe_chat_completion and      *)
(* takes its result, for every listing and every outcome of every call.    *)
(***************************************************************************)
\* generate_companion_reply / generate_counselor_reply call safe_chat_completion
Invoke ==
    /\ pc = "idle"
    /\ pc' = "call"
    /\ UNCHANGED <<cache, available, trial_order, idx, used_model, attempts, result, listing>>

\* the caller takes the returned pair; the locals of the call are gone
Return ==
    /\ pc = "returned"
    /\ pc' = "idle"
    /\ available' = <<>>
    /\ trial_order' = <<>>
    /\ idx' = 1
    /\ used_model' = None
    /\ attempts' = <<>>
    /\ result' = NoResult
    /\ listing' = NoListing
    /\ UNCHANGED cache

ResolverNext ==
    \/ Invoke /\ UNCHANGED <<turnVars, sessionVars>>
    \/ ListModels /\ UNCHANGED <<turnVars, sessionVars>>
    \/ BuildOrder /\ UNCHANGED <<turnVars, sessionVars>>
    \/ (\E kind \in FailKinds : AttemptFail(kind)) /\ UNCHANGED <<turnVars, sessionVars>>
    \/ (\E content \in ReplyTexts : AttemptOk(content)) /\ UNCHANGED <<turnVars, sessionVars>>
    \/ Exhausted /\ UNCHANGED <<turnVars, sessionVars>>
    \/ Return /\ UNCHANGED <<turnVars, sessionVars>>
    \/ CacheExpire /\ UNCHANGED <<turnVars, sessionVars>>

ResolverStart == ResolverInit /\ TurnInit /\ SessionInit

SpecResolver == ResolverStart /\ [][ResolverNext]_vars

(***************************************************************************)
(* Properties of the resolver                                              *)
(***************************************************************************)
\* trial_order has been built
Built == pc \in {"loop", "returned"}

\* the place of m in PREFERRED_MODELS (0 when it is not there)
PrefIndex(m) ==
    IF In(m, PREFERRED_MODELS)
    THEN CHOOSE k \in 1..Len(PREFERRED_MODELS) : PREFERRED_MODELS[k] = m
    ELSE 0

\* the places in PREFERRED_MODELS of the preferred models that are listed
ListedPrefs == {k \in 1..Len(PREFERRED_MODELS) : PREFERRED_MODELS[k] \in Range(available)}

\* C1: whatever the availability query returned, the trial_order built by
\* safe_chat_completion is non-empty and holds no candidate twice.
C1_TrialOrderNonEmptyNoDup ==
    Built =>
        /\ Len(trial_order) >= 1
        /\ \A i, j \in 1..Len(trial_order) : i # j => trial_order[i] # trial_order[j]

\* C1 witness: a trial order built from a listing of several ids whose best
\* model is not the top preference
C1_Witness ==
    /\ Built
    /\ Len(available) >= 2
    /\ trial_order[1] # PREFERRED_MODELS[1]

\* C2: when a preferred model is listed, trial_order starts with the listed
\* preferred model of the smallest index in PREFERRED_MODELS.
C2_BestAvailableFirst ==
    (Built /\ ListedPrefs # {}) =>
        /\ PrefIndex(trial_order[1]) \in ListedPrefs
        /\ \A k \in ListedPrefs : PrefIndex(trial_order[1]) <= k

\* C2 witness: two preferred models are listed and the one sorted() puts
\* second is the one of higher priority
C2_Witness ==
    /\ Built
    /\ Cardinality(ListedPrefs) >= 2
    /\ trial_order[1] # available[1]
    /\ In(available[1], PREFERRED_MODELS)

\* C3: when client.models.list() raises or lists nothing, available is the
\* empty list and trial_order is PREFERRED_MODELS in its own order.
C3_EmptyListingGivesPreferenceOrder ==
    (Built /\ (listing.raised \/ listing.ids = {})) =>
        /\ available = <<>>
        /\ trial_order = PREFERRED_MODELS

\* C3 witness: the listing call raised and a trial order was built from it
C3_Witness == Built /\ listing.raised /\ Len(trial_order) = Len(PREFERRED_MODELS)

\* C4: trial_order is a permutation of PREFERRED_MODELS: one preferred model
\* first, then the other preferred models in their original relative order;
\* no model outside PREFERRED_MODELS appears and none is left out.
C4_PermutationOfPreferred ==
    Built =>
        /\ Len(trial_order) = Len(PREFERRED_MODELS)
        /\ Range(trial_order) = Range(PREFERRED_MODELS)
        /\ \A i, j \in 2..Len(trial_order) :
              i < j => PrefIndex(trial_order[i]) < PrefIndex(trial_order[j])
        /\ (ListedPrefs = {} => trial_order[1] = PREFERRED_MODELS[1])

\* C4 witness: the listing holds a model outside PREFERRED_MODELS, sorted before a
\* preferred one that is not the top preference
C4_Witness ==
    /\ Built
    /\ Len(available) >= 2
    /\ ~In(available[1], PREFERRED_MODELS)
    /\ trial_order[1] # PREFERRED_MODELS[1]
    /\ trial_order[Len(trial_order)] = PREFERRED_MODELS[Len(PREFERRED_MODELS)]

\* the attempts that succeeded
OkAttempts == {k \in 1..Len(attempts) : attempts[k].ok}

\* C5: the candidates are attempted one after another in trial_order order,
\* each at most once; the first success ends the loop, and the pair returned
\* is that candidate's (stripped) text and that candidate.
C5_SequentialFirstSuccess ==
    /\ Built =>
          /\ Len(attempts) <= Len(trial_order)
          /\ \A k \in 1..Len(attempts) : attempts[k].model = trial_order[k]
          /\ \A k \in OkAttempts : k = Len(attempts)
    /\ pc = "loop" => (OkAttempts = {} /\ Len(attempts) = idx - 1)
    /\ (pc = "returned" /\ OkAttempts # {}) =>
          LET last == attempts[Len(attempts)]
          IN  /\ result.text = Strip(last.content)
              /\ result.model = last.model
              /\ \A k \in 1..(Len(attempts) - 1) : ~attempts[k].ok

\* C5 witness: two candidates failed, the third succeeded and the call returned
C5_Witness ==
    /\ pc = "returned"
    /\ Len(attempts) = 3
    /\ attempts[3].ok
    /\ result.model = trial_order[3]

\* every candidate was attempted and none succeeded
AllFailed ==
    /\ pc = "returned"
    /\ OkAttempts = {}

\* C6: when every candidate fails, safe_chat_completion returns the fallback
\* text and no candidate (used_model is None), each candidate attempted once.
C6_AllFailReturnsFallbackAndNone ==
    AllFailed =>
        /\ result.text = friendly
        /\ result.model = None
        /\ Len(attempts) = Len(trial_order)
        /\ \A k \in 1..Len(attempts) : attempts[k].model = trial_order[k]

\* C7: whatever the listing call and the completion calls do, no failure leaves
\* safe_chat_completion: the listing always yields a list of ids (empty when it
\* raised), the loop can always take its next step and never passes the end of
\* trial_order, and what is returned is a text with a preferred model or None: a
\* candidate's text, or the fallback text.
C7_NoFailureEscapes ==
    /\ pc \in {"idle", "call", "listed", "loop", "returned"}
    /\ pc = "call" => ENABLED ListModels
    /\ pc = "listed" => available \in Seq(Range(ID_ORDER))
    /\ pc = "loop" => ENABLED (Exhausted \/ \E kind \in FailKinds : AttemptFail(kind))
    /\ Built => idx \in 1..(Len(trial_order) + 1)
    /\ pc = "returned" =>
          /\ result.text # NoContent
          /\ result.model \in Range(PREFERRED_MODELS) \cup {None}
          /\ \/ result.text = friendly /\ OkAttempts = {}
             \/ OkAttempts # {} /\ result.model # None

\* C7 witness: the listing raised, a response could not be read, every other
\* call raised, and the call returned all the same
C7_Witness ==
    /\ pc = "returned"
    /\ listing.raised
    /\ OkAttempts = {}
    /\ used_model # None
    /\ result.text = friendly

(***************************************************************************)
(* Emotion and intent detection                                            *)
(***************************************************************************)
UPPER ==
    <<"A","B","C","D","E","F","G","H","I","J","K","L","M",
      "N","O","P","Q","R","S","T","U","V","W","X","Y","Z">>

LOWER ==
    <<"a","b","c","d","e","f","g","h","i","j","k","l","m",
      "n","o","p","q","r","s","t","u","v","w","x","y","z">>

\* str.lower() on one character
LowerChar(c) ==
    IF \E k \in 1..Len(UPPER) : UPPER[k] = c
    THEN LOWER[CHOOSE k \in 1..Len(UPPER) : UPPER[k] = c]
    ELSE c

\* text.lower()
Lower(s) == [k \in 1..Len(s) |-> LowerChar(s[k])]

\* k in tl, for strings: k occurs in tl as a substring
Contains(k, tl) ==
    \E i \in 0..(Len(tl) - Len(k)) : \A j \in 1..Len(k) : tl[i + j] = k[j]

\* any(k in tl for k in kws)
AnyIn(kws, tl) == \E n \in 1..Len(kws) : Contains(kws[n], tl)

\* EMOTION_LEX, one keyword list per emotion
\* EMOTION_LEX["anxiety"]
LEX_anxiety ==
    <<
      <<"a","n","x","i","o","u","s">>, <<"p","a","n","i","c">>,
      <<"p","a","n","i","c","k","i","n","g">>, <<"n","e","r","v","o","u","s">>,
      <<"w","o","r","r","i","e","d">>, <<"p","r","e","s","s","u","r","e">>,
      <<"s","t","r","e","s","s","e","d">>, <<"o","v","e","r","t","h","i","n","k","i","n","g">>,
      <<"o","v","e","r","w","h","e","l","m">>, <<"t","e","n","s","e">>,
      <<"a","f","r","a","i","d">>, <<"s","c","a","r","e","d">>, <<"U7126","U616E">>,
      <<"U7DCA","U5F35">>, <<"U64D4","U5FC3">>, <<"U614C">>
    >>

\* EMOTION_LEX["sadness"]
LEX_sadness ==
    <<
      <<"s","a","d">>, <<"l","o","n","e","l","y">>, <<"u","p","s","e","t">>,
      <<"t","i","r","e","d">>, <<"h","u","r","t">>, <<"e","m","p","t","y">>, <<"n","u","m","b">>,
      <<"d","o","w","n">>, <<"b","l","u","e">>, <<"d","e","p","r","e","s","s","e","d">>,
      <<"c","r","y">>, <<"c","r","y","i","n","g">>, <<"l","o","s","s">>, <<"g","r","i","e","f">>,
      <<"U96E3","U904E">>, <<"U5B64","U55AE">>, <<"U5931","U843D">>, <<"U4F4E","U843D">>,
      <<"U60F3","U54ED">>, <<"U7A7A">>
    >>

\* EMOTION_LEX["anger"]
LEX_anger ==
    <<
      <<"a","n","g","r","y">>, <<"f","r","u","s","t","r","a","t","e","d">>,
      <<"i","r","r","i","t","a","t","e","d">>, <<"m","a","d">>, <<"f","u","r","i","o","u","s">>,
      <<"r","a","g","e">>, <<"a","n","n","o","y","e","d">>,
      <<"r","e","s","e","n","t","f","u","l">>, <<"U751F","U6C23">>, <<"U61A4","U6012">>,
      <<"U4E0D","U723D">>
    >>

\* EMOTION_LEX["shame"]
LEX_shame ==
    <<
      <<"a","s","h","a","m","e","d">>, <<"s","h","a","m","e">>,
      <<"e","m","b","a","r","r","a","s","s","e","d">>,
      <<"h","u","m","i","l","i","a","t","e","d">>, <<"g","u","i","l","t","y">>,
      <<"w","o","r","t","h","l","e","s","s">>, <<"n","o","t"," ","e","n","o","u","g","h">>,
      <<"f","a","i","l","u","r","e">>, <<"U4E1F","U81C9">>, <<"U7F9E","U6127">>,
      <<"U5167","U759A">>, <<"U6C92","U7528">>, <<"U5931","U6557","U8005">>, <<"U5F88","U721B">>,
      <<"U5F88","U5EE2">>
    >>

\* EMOTION_LEX["calm"]
LEX_calm ==
    <<
      <<"h","a","p","p","y">>, <<"g","r","a","t","e","f","u","l">>,
      <<"p","e","a","c","e","f","u","l">>, <<"c","o","n","t","e","n","t">>, <<"o","k","a","y">>,
      <<"f","i","n","e">>, <<"r","e","l","i","e","v","e","d">>, <<"l","i","g","h","t">>,
      <<"U5E73","U975C">>, <<"U653E","U9B06">>, <<"U8F15","U9B06">>, <<"U611F","U8B1D">>,
      <<"U9084","U597D">>
    >>

\* EMOTION_LEX in the order of its items()
EMOTION_LEX ==
    <<[emo |-> "anxiety", kws |-> LEX_anxiety],
      [emo |-> "sadness", kws |-> LEX_sadness],
      [emo |-> "anger", kws |-> LEX_anger],
      [emo |-> "shame", kws |-> LEX_shame],
      [emo |-> "calm", kws |-> LEX_calm]>>

\* analyze_intent_and_risk, the list of line 141
HELP_PHRASES ==
    <<
      <<"w","h","a","t"," ","s","h","o","u","l","d"," ","i">>,
      <<"s","h","o","u","l","d"," ","i">>, <<"h","o","w"," ","d","o"," ","i">>,
      <<"h","o","w"," ","s","h","o","u","l","d"," ","i">>,
      <<"w","h","a","t"," ","c","a","n"," ","i"," ","d","o">>, <<"h","e","l","p"," ","m","e">>,
      <<"a","d","v","i","s","e">>, <<"U6211","U8981","U600E","U9EBC","U8FA6">>,
      <<"U8A72","U4E0D","U8A72">>, <<"U600E","U9EBC","U505A">>
    >>

\* analyze_intent_and_risk, the list of line 143
SELF_BLAME_PHRASES ==
    <<
      <<"i","'","m"," ","s","o","r","r","y">>, <<"m","y"," ","f","a","u","l","t">>,
      <<"i"," ","s","h","o","u","l","d","n","'","t">>,
      <<"i"," ","a","l","w","a","y","s"," ","m","e","s","s"," ","u","p">>,
      <<"b","l","a","m","e"," ","m","y","s","e","l","f">>,
      <<"U90FD","U662F","U6211","U7684","U932F">>, <<"U6211","U5F88","U7CDF">>,
      <<"U6211","U5F88","U721B">>, <<"U6211","U5F88","U5EE2">>
    >>

\* analyze_intent_and_risk, the list of line 145
AVOID_PHRASES ==
    <<
      <<"w","h","a","t","e","v","e","r">>, <<"f","o","r","g","e","t"," ","i","t">>,
      <<"n","o"," ","p","o","i","n","t">>,
      <<"d","o","e","s","n","'","t"," ","m","a","t","t","e","r">>, <<"U7B97","U4E86">>,
      <<"U90FD","U6C92","U5DEE">>, <<"U61F6","U5F97","U8B1B">>
    >>

\* analyze_intent_and_risk, the list of line 147
EXPLORE_PHRASES ==
    <<
      <<"w","h","y"," ","a","m"," ","i">>, <<"w","h","y"," ","d","o"," ","i">>,
      <<"i"," ","w","o","n","d","e","r">>, <<"m","a","y","b","e"," ","i">>,
      <<"i"," ","w","a","n","t"," ","t","o"," ","u","n","d","e","r","s","t","a","n","d">>,
      <<"U70BA","U4EC0","U9EBC","U6211">>, <<"U6211","U662F","U4E0D","U662F">>,
      <<"U6211","U5728","U60F3">>
    >>

\* analyze_intent_and_risk, the list of line 153
RISK_2_WORDS ==
    <<
      <<"d","i","s","a","p","p","e","a","r">>,
      <<"g","i","v","e"," ","u","p"," ","o","n"," ","l","i","f","e">>,
      <<"i"," ","d","o","n","'","t"," ","w","a","n","t"," ","t","o"," ","b","e"," ","h","e","r","e">>,
      <<"U60F3","U6D88","U5931">>, <<"U4E0D","U60F3","U5728","U9019">>
    >>

\* analyze_intent_and_risk, the list of line 154
RISK_3_WORDS ==
    <<
      <<"d","i","e">>, <<"d","e","a","t","h">>, <<"k","i","l","l"," ","m","y","s","e","l","f">>,
      <<"s","u","i","c","i","d","e">>, <<"h","u","r","t"," ","m","y","s","e","l","f">>,
      <<"U81EA","U6BBA">>, <<"U60F3","U6B7B">>, <<"U50B7","U5BB3","U81EA","U5DF1">>
    >>

\* analyze_intent_and_risk, the list of line 155
RISK_1_WORDS ==
    <<
      <<"c","a","n","'","t"," ","s","l","e","e","p">>,
      <<"a","w","a","k","e"," ","a","l","l"," ","n","i","g","h","t">>,
      <<"n","o"," ","a","p","p","e","t","i","t","e">>, <<"b","i","n","g","e">>,
      <<"U5931","U7720">>, <<"U6C92","U80C3","U53E3">>
    >>

INTERVENTION_ROUTER ==
    "anxiety" :>
        ("venting" :> <<"GROUNDING_54321", "BREATH_BOX", "EMOTIONAL_LABELING", "ACTION_STEP">> @@
         "help" :> <<"CBT_THOUGHT_RECORD", "BREATH_BOX", "ACTION_STEP">> @@
         "self-blame" :> <<"SELF_COMPASSION", "EMOTIONAL_LABELING", "CBT_THOUGHT_RECORD">> @@
         "explore" :> <<"REFLECTIVE_QUESTION", "EMOTIONAL_LABELING">> @@
         "avoid" :> <<"ACTION_STEP", "BREATH_BOX">>) @@
    "sadness" :>
        ("venting" :> <<"SELF_COMPASSION", "EMOTIONAL_LABELING", "BODY_SCAN">> @@
         "help" :> <<"ACTION_STEP", "GRATITUDE_PROMPT", "SLEEP_HYGIENE_MINI">> @@
         "self-blame" :> <<"SELF_COMPASSION", "CBT_THOUGHT_RECORD">> @@
         "explore" :> <<"REFLECTIVE_QUESTION", "GRATITUDE_PROMPT">> @@
         "avoid" :> <<"ACTION_STEP", "BODY_SCAN">>) @@
    "anger" :>
        ("venting" :> <<"DBT_TIPP", "EMOTIONAL_LABELING">> @@
         "help" :> <<"DESC_SCRIPT", "ACTION_STEP">> @@
         "self-blame" :> <<"SELF_COMPASSION", "CBT_THOUGHT_RECORD">> @@
         "explore" :> <<"REFLECTIVE_QUESTION">> @@
         "avoid" :> <<"DBT_TIPP", "ACTION_STEP">>) @@
    "shame" :>
        ("venting" :> <<"SELF_COMPASSION", "EMOTIONAL_LABELING">> @@
         "help" :> <<"CBT_THOUGHT_RECORD", "ACTION_STEP">> @@
         "self-blame" :> <<"SELF_COMPASSION", "REFLECTIVE_QUESTION">> @@
         "explore" :> <<"REFLECTIVE_QUESTION", "GRATITUDE_PROMPT">> @@
         "avoid" :> <<"ACTION_STEP", "BREATH_BOX">>) @@
    "calm" :>
        ("venting" :> <<"GRATITUDE_PROMPT", "ACTION_STEP">> @@
         "help" :> <<"ACTION_STEP", "DESC_SCRIPT">> @@
         "self-blame" :> <<"SELF_COMPASSION">> @@
         "explore" :> <<"REFLECTIVE_QUESTION">> @@
         "avoid" :> <<"ACTION_STEP">>) @@
    "neutral" :>
        ("venting" :> <<"EMOTIONAL_LABELING", "REFLECTIVE_QUESTION">> @@
         "help" :> <<"ACTION_STEP", "CBT_THOUGHT_RECORD">> @@
         "self-blame" :> <<"SELF_COMPASSION">> @@
         "explore" :> <<"REFLECTIVE_QUESTION", "GRATITUDE_PROMPT">> @@
         "avoid" :> <<"ACTION_STEP", "BREATH_BOX">>)

\* the keys of INTERVENTIONS
INTERVENTION_KEYS ==
    {"CBT_THOUGHT_RECORD",
     "DBT_TIPP",
     "GROUNDING_54321",
     "BREATH_BOX",
     "SELF_COMPASSION",
     "DESC_SCRIPT",
     "SLEEP_HYGIENE_MINI",
     "BODY_SCAN",
     "REFLECTIVE_QUESTION",
     "ACTION_STEP",
     "GRATITUDE_PROMPT",
     "EMOTIONAL_LABELING"}

\* mutant: matches the keywords against the text as typed, without .lower()
detect_emotion_case_sensitive(text) ==
    IF \E n \in 1..Len(EMOTION_LEX) : AnyIn(EMOTION_LEX[n].kws, text)
    THEN EMOTION_LEX[CHOOSE n \in 1..Len(EMOTION_LEX) :
                        /\ AnyIn(EMOTION_LEX[n].kws, text)
                        /\ \A h \in 1..(n - 1) : ~AnyIn(EMOTION_LEX[h].kws, text)].emo
    ELSE "neutral"

\* detect_emotion: the first emotion of EMOTION_LEX with a keyword in text.lower()
detect_emotion(text) ==
    LET tl == Lower(text)
    IN  IF \E n \in 1..Len(EMOTION_LEX) : AnyIn(EMOTION_LEX[n].kws, tl)
        THEN EMOTION_LEX[CHOOSE n \in 1..Len(EMOTION_LEX) :
                            /\ AnyIn(EMOTION_LEX[n].kws, tl)
                            /\ \A h \in 1..(n - 1) : ~AnyIn(EMOTION_LEX[h].kws, tl)].emo
        ELSE "neutral"

\* analyze_intent_and_risk: the if/elif chain that sets intent
IntentOf(tl) ==
    IF AnyIn(HELP_PHRASES, tl) THEN "help"
    ELSE IF AnyIn(SELF_BLAME_PHRASES, tl) THEN "self-blame"
    ELSE IF AnyIn(AVOID_PHRASES, tl) THEN "avoid"
    ELSE IF AnyIn(EXPLORE_PHRASES, tl) THEN "explore"
    ELSE "venting"

\* analyze_intent_and_risk: risk_score before the cap
RiskSum(tl) ==
    (IF AnyIn(RISK_2_WORDS, tl) THEN 2 ELSE 0)
    + (IF AnyIn(RISK_3_WORDS, tl) THEN 3 ELSE 0)
    + (IF AnyIn(RISK_1_WORDS, tl) THEN 1 ELSE 0)

Min(a, b) == IF a <= b THEN a ELSE b

\* analyze_intent_and_risk: (intent, min(risk_score, 5))
analyze_intent_and_risk(text) ==
    LET tl == Lower(text)
    IN  [intent |-> IntentOf(tl), risk_score |-> Min(RiskSum(tl), 5)]

(***************************************************************************)
(* Intervention router                                                     *)
(***************************************************************************)
\* mutant: a missing key gives an empty list, not the default
GetNoDefault(d, key, default) == IF key \in DOMAIN d THEN d[key] ELSE <<>>

\* dict.get(key, default)
Get(d, key, default) == IF key \in DOMAIN d THEN d[key] ELSE default

\* choose_intervention: pool
RouterPool(emo, int) ==
    Get(Get(INTERVENTION_ROUTER, emo, INTERVENTION_ROUTER["neutral"]),
        int, INTERVENTION_ROUTER["neutral"]["venting"])

\* choose_intervention: the keys that take priority when risk_score >= 3
PRIORITY_KEYS == {"DBT_TIPP", "BREATH_BOX", "GROUNDING_54321", "EMOTIONAL_LABELING"}

\* mutant: the priority branch is taken only above 3
choose_intervention_above_3(emo, int, risk) ==
    LET pool == RouterPool(emo, int)
        priority == SelectSeq(pool, LAMBDA k : k \in PRIORITY_KEYS)
    IN  IF risk > 3 /\ priority # <<>> THEN Range(priority) ELSE Range(pool)

\* choose_intervention: the keys random.choice may return
choose_intervention(emo, int, risk) ==
    LET pool == RouterPool(emo, int)
        priority == SelectSeq(pool, LAMBDA k : k \in PRIORITY_KEYS)
    IN  IF risk >= 3 /\ priority # <<>> THEN Range(priority) ELSE Range(pool)

(***************************************************************************)
(* Working case formulation                                                *)
(***************************************************************************)
\* infer_case_formulation, the list of line 363
SELF_WORTH_WORDS ==
    <<
      <<"n","o","t"," ","e","n","o","u","g","h">>, <<"w","o","r","t","h","l","e","s","s">>,
      <<"f","a","i","l","u","r","e">>, <<"U6211","U5F88","U7CDF">>, <<"U6211","U5F88","U721B">>,
      <<"U6211","U5F88","U5EE2">>, <<"U4E0D","U5920","U597D">>, <<"U6C92","U50F9","U503C">>
    >>

\* infer_case_formulation, the list of line 365
PERFORMANCE_WORDS ==
    <<
      <<"r","e","p","o","r","t">>, <<"m","e","e","t","i","n","g">>,
      <<"p","e","r","f","o","r","m","a","n","c","e">>, <<"d","e","a","d","l","i","n","e">>,
      <<"U8003","U8A66">>, <<"U5DE5","U4F5C">>, <<"U4E0A","U73ED">>, <<"U8868","U73FE">>,
      <<"U7E3E","U6548">>
    >>

\* infer_case_formulation, the list of line 367
FAMILY_WORDS ==
    <<
      <<"m","o","m">>, <<"m","o","t","h","e","r">>, <<"d","a","d">>, <<"f","a","t","h","e","r">>,
      <<"U7238">>, <<"U5ABD">>, <<"U7236","U6BCD">>, <<"U5BB6","U4EBA">>
    >>

\* infer_case_formulation, the list of line 369
RELATIONSHIP_WORDS ==
    <<
      <<"r","e","l","a","t","i","o","n","s","h","i","p">>,
      <<"b","o","y","f","r","i","e","n","d">>, <<"g","i","r","l","f","r","i","e","n","d">>,
      <<"p","a","r","t","n","e","r">>, <<"U7537","U53CB">>, <<"U5973","U53CB">>,
      <<"U611F","U60C5">>, <<"U6200","U611B">>
    >>

\* infer_case_formulation, the list of line 371
ENERGY_WORDS ==
    <<
      <<"t","i","r","e","d">>, <<"e","x","h","a","u","s","t","e","d">>,
      <<"b","u","r","n","o","u","t">>, <<"b","u","r","n","e","d"," ","o","u","t">>,
      <<"U597D","U7D2F">>, <<"U5026","U6020">>, <<"U6490","U4E0D","U4F4F">>
    >>

\* infer_case_formulation, the list of line 375
PERFECTIONISM_WORDS ==
    <<
      <<"s","h","o","u","l","d">>, <<"m","u","s","t">>, <<"h","a","v","e"," ","t","o">>,
      <<"U4E00","U5B9A","U8981">>, <<"U61C9","U8A72">>, <<"U4E0D","U80FD","U5931","U8AA4">>,
      <<"U4E0D","U53EF","U4EE5","U72AF","U932F">>, <<"U5B8C","U7F8E">>
    >>

\* infer_case_formulation, the list of line 377
OVERGENERALIZATION_WORDS ==
    <<
      <<"a","l","w","a","y","s">>, <<"n","e","v","e","r">>,
      <<"e","v","e","r","y"," ","t","i","m","e">>, <<"U6BCF","U6B21">>,
      <<"U90FD","U9019","U6A23">>, <<"U7E3D","U662F">>
    >>

\* infer_case_formulation, the list of line 379
SELF_CRITICISM_WORDS ==
    <<
      <<"i","'","m"," ","t","h","e"," ","p","r","o","b","l","e","m">>,
      <<"U90FD","U662F","U6211","U7684","U932F">>, <<"U602A","U6211">>,
      <<"m","y"," ","f","a","u","l","t">>, <<"i"," ","r","u","i","n">>,
      <<"U6211","U5BB3","U7684">>
    >>

\* mutant: the previous items are not carried over
OrderingsOfNone(items) == {<<>>}

\* list(set(items)): the items without duplicates, in an order Python does not fix
Orderings(items) ==
    LET S == Range(items)
    IN  {f \in [1..Cardinality(S) -> S] : \A i, j \in 1..Cardinality(S) : i # j => f[i] # f[j]}

\* add_theme, add_pattern, add_hypo: append x when cond holds and x is not in items
AddIf(cond, items, x) == IF cond /\ ~In(x, items) THEN Append(items, x) ELSE items

\* infer_case_formulation: the formulations it may return
infer_case_formulation(user_text, emo, int, prev_formulation) ==
    LET tl == Lower(user_text)
    IN  {LET t1 == AddIf(AnyIn(SELF_WORTH_WORDS, tl), t0, "self-worth / adequacy")
             t2 == AddIf(AnyIn(PERFORMANCE_WORDS, tl), t1, "performance pressure")
             t3 == AddIf(AnyIn(FAMILY_WORDS, tl), t2, "family / early expectations")
             t4 == AddIf(AnyIn(RELATIONSHIP_WORDS, tl), t3, "relationships")
             t5 == AddIf(AnyIn(ENERGY_WORDS, tl), t4, "mood & energy")
             p1 == AddIf(AnyIn(PERFECTIONISM_WORDS, tl), p0, "perfectionism / high standards")
             p2 == AddIf(AnyIn(OVERGENERALIZATION_WORDS, tl), p1, "overgeneralization")
             p3 == AddIf(AnyIn(SELF_CRITICISM_WORDS, tl), p2, "global self-criticism")
             p4 == AddIf(int = "self-blame", p3, "self-blame focus")
             h1 == AddIf(In("self-worth / adequacy", t5)
                           /\ In("perfectionism / high standards", p4),
                         h0, "possible core belief: 'I must perform well to be worthy / acceptable.'")
             h2 == AddIf(In("family / early expectations", t5), h1,
                         "early family messages may be shaping how you evaluate yourself now.")
             h3 == AddIf(emo = "shame", h2,
                         "shame may be activated when you feel 'seen' as imperfect.")
         IN  [themes |-> t5, patterns |-> p4, hypotheses |-> h3] :
             t0 \in Orderings(prev_formulation.themes),
             p0 \in Orderings(prev_formulation.patterns),
             h0 \in Orderings(prev_formulation.hypotheses)}

(***************************************************************************)
(* The classifiers and the router on their own: applied to every message   *)
(* of at most MaxWords phrases, and the router to every pair of labels.    *)
(***************************************************************************)
\* phrases user messages are made of
Vocabulary ==
    <<
      <<"I"," ","f","e","e","l"," ","A","N","X","I","O","U","S">>, <<"s","o"," ","S","a","d">>,
      <<"a","n","g","r","y">>, <<"n","o","t"," ","e","n","o","u","g","h">>,
      <<"s","l","i","g","h","t","l","y">>, <<"H","e","l","p"," ","m","e">>,
      <<"M","y"," ","f","a","u","l","t">>, <<"w","h","a","t","e","v","e","r">>,
      <<"W","h","y"," ","d","o"," ","I">>,
      <<"d","i","s","a","p","p","e","a","r"," ","a","n","d"," ","d","i","e">>,
      <<"c","a","n","'","t"," ","s","l","e","e","p">>, <<"h","e","l","l","o">>,
      <<"U96E3","U904E">>
    >>

\* the phrases of ws joined by single spaces
RECURSIVE Join(_)
Join(ws) ==
    IF ws = <<>> THEN <<>>
    ELSE IF Len(ws) = 1 THEN Vocabulary[ws[1]]
    ELSE Vocabulary[ws[1]] \o <<" ">> \o Join(Tail(ws))

\* the user messages: up to MaxWords phrases of Vocabulary
Messages ==
    {Join(ws) : ws \in UNION {[1..n -> 1..Len(Vocabulary)] : n \in 0..MaxWords}}

EMOTIONS == {"anxiety", "sadness", "anger", "shame", "calm", "neutral"}
INTENTS == {"help", "self-blame", "avoid", "explore", "venting"}

\* a label neither table knows
Unknown == "unknown"

ClassifyInit ==
    /\ ResolverIdle
    /\ SessionInit
    /\ intervention_key = None
    /\ \/ /\ pc = "start"
          /\ user_input \in Messages
          /\ emotion = None
          /\ intent = None
          /\ risk_score = 0
       \/ /\ pc = "given"
          /\ user_input = <<>>
          /\ emotion \in EMOTIONS \cup {Unknown}
          /\ intent \in INTENTS \cup {Unknown}
          /\ risk_score \in 0..5

\* the chat input handler's perception step: detect_emotion and analyze_intent_and_risk
Classify ==
    /\ pc = "start"
    /\ emotion' = detect_emotion(user_input)
    /\ LET a == analyze_intent_and_risk(user_input)
       IN  /\ intent' = a.intent
           /\ risk_score' = a.risk_score
    /\ pc' = "classified"
    /\ UNCHANGED <<user_input, intervention_key, sessionVars>>
    /\ UNCHANGED <<cache, available, trial_order, idx, used_model, attempts, result, listing>>

\* intervention_key = choose_intervention(emotion, intent, risk_score);
\* random.choice raises IndexError on an empty list
Choose ==
    /\ pc \in {"classified", "given"}
    /\ LET keys == choose_intervention(emotion, intent, risk_score)
       IN  IF keys = {}
           THEN /\ pc' = "raised"
                /\ intervention_key' = intervention_key
           ELSE /\ pc' = "chosen"
                /\ \E k \in keys : intervention_key' = k
    /\ UNCHANGED <<user_input, emotion, intent, risk_score, sessionVars>>
    /\ UNCHANGED <<cache, available, trial_order, idx, used_model, attempts, result, listing>>

\* generate_counselor_reply: module = INTERVENTIONS[intervention_key]; a key
\* that is not in INTERVENTIONS raises KeyError
Lookup ==
    /\ pc = "chosen"
    /\ pc' = IF intervention_key \in INTERVENTION_KEYS THEN "found" ELSE "raised"
    /\ UNCHANGED <<turnVars, sessionVars>>
    /\ UNCHANGED <<cache, available, trial_order, idx, used_model, attempts, result, listing>>

ClassifyNext ==
    \/ Classify
    \/ Choose
    \/ Lookup

SpecClassify == ClassifyInit /\ [][ClassifyNext]_vars

(***************************************************************************)
(* Properties of the classifiers and the router                            *)
(***************************************************************************)
\* k is a substring of text when the case of letters is ignored
ContainsIgnoreCase(k, text) ==
    \E i \in 0..(Len(text) - Len(k)) :
        \A j \in 1..Len(k) : LowerChar(text[i + j]) = LowerChar(k[j])

\* the places in EMOTION_LEX of the emotions with a keyword in text
EmotionHits(text) ==
    {n \in 1..Len(EMOTION_LEX) :
        \E m \in 1..Len(EMOTION_LEX[n].kws) : ContainsIgnoreCase(EMOTION_LEX[n].kws[m], text)}

\* the intents with phrases, in the order the claim gives them
IntentOrder ==
    <<[intent |-> "help", phrases |-> HELP_PHRASES],
      [intent |-> "self-blame", phrases |-> SELF_BLAME_PHRASES],
      [intent |-> "avoid", phrases |-> AVOID_PHRASES],
      [intent |-> "explore", phrases |-> EXPLORE_PHRASES]>>

IntentHits(text) ==
    {n \in 1..Len(IntentOrder) :
        \E m \in 1..Len(IntentOrder[n].phrases) :
            ContainsIgnoreCase(IntentOrder[n].phrases[m], text)}

Least(S) == CHOOSE n \in S : \A m \in S : n <= m

\* C9: detect_emotion returns a label of the closed set: the first emotion in
\* EMOTION_LEX order with a keyword that is a case-insensitive substring of the
\* message, neutral when there is none; analyze_intent_and_risk returns the first
\* matching intent in the order help, self-blame, avoid, explore, and venting
\* when none matches.
C9_FirstMatchClassification ==
    pc = "classified" =>
        /\ emotion \in EMOTIONS
        /\ intent \in INTENTS
        /\ emotion = IF EmotionHits(user_input) = {} THEN "neutral"
                     ELSE EMOTION_LEX[Least(EmotionHits(user_input))].emo
        /\ intent = IF IntentHits(user_input) = {} THEN "venting"
                    ELSE IntentOrder[Least(IntentHits(user_input))].intent

\* C9 witness: "so Sad I feel ANXIOUS My fault Help me"-like messages: a sadness
\* keyword comes first in the text, an anxiety keyword in capitals after it, and
\* the emotion is anxiety
C9_Witness ==
    /\ pc = "classified"
    /\ user_input = Join(<<2, 1>>)
    /\ emotion = "anxiety"
    /\ intent = "venting"

\* the somatic and labeling keys the claim names
SomaticKeys == {"DBT_TIPP", "BREATH_BOX", "GROUNDING_54321", "EMOTIONAL_LABELING"}

\* C10: for every emotion, intent and risk score in 0..5 the chosen key is in
\* the router's pool for the pair; with a risk score of 3 or more and a somatic or
\* labeling key in the pool, the chosen key is one of those; and the risk score
\* analyze_intent_and_risk computes is always in 0..5.
C10_RouterChoiceAndRiskRange ==
    /\ pc \in {"classified", "chosen"} => risk_score \in 0..5
    /\ (pc = "chosen" /\ emotion \in EMOTIONS /\ intent \in INTENTS) =>
          LET pool == Range(INTERVENTION_ROUTER[emotion][intent])
          IN  /\ intervention_key \in pool
              /\ (risk_score >= 3 /\ pool \cap SomaticKeys # {}) =>
                    intervention_key \in SomaticKeys

\* C10 witness: a message with an anxiety keyword and risk words of weight 5:
\* the pool holds ACTION_STEP too, and a somatic key was chosen
C10_Witness ==
    /\ pc = "chosen"
    /\ user_input # <<>>
    /\ emotion = "anxiety"
    /\ risk_score = 5
    /\ "ACTION_STEP" \in Range(INTERVENTION_ROUTER[emotion][intent])
    /\ intervention_key \in SomaticKeys

(***************************************************************************)
(* The chat input handler                                                  *)
(***************************************************************************)
\* "Counselor" in mode
IsCounselor(m) == m = COUNSELOR

\* a script run with a submitted message, from the sidebar to the call of
\* safe_chat_completion: the sidebar lists the models (filling the cache from the
\* API outcome l when it holds no valid entry) and shows last_used_model; the user
\* message is appended and classified; in Counselor Mode the case formulation is
\* updated and an intervention is chosen
Submit(input, m, l) ==
    /\ pc = "idle"
    /\ input # <<>>
    /\ mode' = m
    /\ cache' = IF cache.valid THEN cache
                ELSE [valid |-> TRUE, value |-> list_available_models_safely(l), listing |-> l]
    /\ sidebar_info' = SidebarInfo(last_used_model)
    /\ user_input' = input
    /\ messages' = Append(messages, [role |-> "user", content |-> input])
    /\ LET emo == detect_emotion(input)
           a == analyze_intent_and_risk(input)
       IN  /\ emotion' = emo
           /\ intent' = a.intent
           /\ risk_score' = a.risk_score
           /\ IF IsCounselor(m)
              THEN /\ \E cf \in infer_case_formulation(input, emo, a.intent, case_formulation) :
                          case_formulation' = cf
                   /\ \E k \in choose_intervention(emo, a.intent, a.risk_score) :
                          intervention_key' = k
              ELSE /\ case_formulation' = case_formulation
                   /\ intervention_key' = None
    /\ pc' = "call"
    /\ UNCHANGED <<log, last_used_model>>
    /\ UNCHANGED <<available, trial_order, idx, used_model, attempts, result, listing>>

\* mutant: a turn whose candidates all failed appends no assistant message
FinishSkipsFallback ==
    /\ pc = "returned"
    /\ last_used_model' = result.model
    /\ LET ai_reply == LStrip(result.text)
       IN  messages' = IF OkAttempts = {} THEN messages
                       ELSE Append(messages, [role |-> "assistant", content |-> ai_reply])
    /\ log' = Append(log, [mode |-> IF IsCounselor(mode) THEN "counselor" ELSE "companion",
                           emotion |-> emotion,
                           intent |-> intent,
                           risk_score |-> risk_score,
                           module |-> intervention_key,
                           model_used |-> result.model,
                           case_formulation |-> IF IsCounselor(mode) THEN case_formulation
                                                ELSE None])
    /\ pc' = "idle"
    /\ available' = <<>>
    /\ trial_order' = <<>>
    /\ idx' = 1
    /\ used_model' = None
    /\ result' = NoResult
    /\ listing' = NoListing
    /\ UNCHANGED <<cache, attempts, turnVars, mode, case_formulation, sidebar_info>>

\* the handler after safe_chat_completion returned: last_used_model is set, the
\* reply loses its leading whitespace, is shown and appended, the turn is logged
\* (the log entry without its time stamp and its reasoning text)
Finish ==
    /\ pc = "returned"
    /\ last_used_model' = result.model
    /\ LET ai_reply == LStrip(result.text)
       IN  messages' = Append(messages, [role |-> "assistant", content |-> ai_reply])
    /\ log' = Append(log, [mode |-> IF IsCounselor(mode) THEN "counselor" ELSE "companion",
                           emotion |-> emotion,
                           intent |-> intent,
                           risk_score |-> risk_score,
                           module |-> intervention_key,
                           model_used |-> result.model,
                           case_formulation |-> IF IsCounselor(mode) THEN case_formulation
                                                ELSE None])
    /\ pc' = "idle"
    /\ available' = <<>>
    /\ trial_order' = <<>>
    /\ idx' = 1
    /\ used_model' = None
    /\ result' = NoResult
    /\ listing' = NoListing
    /\ UNCHANGED <<cache, attempts, turnVars, mode, case_formulation, sidebar_info>>

(***************************************************************************)
(* One turn of the handler for every generated text of at most MaxPieces   *)
(* pieces: what the user is shown for what the model produced.             *)
(***************************************************************************)
\* the tag-shaped text [MODE:d]
Tag(d) == <<"[", "M", "O", "D", "E", ":", d, "]">>

\* pieces generated texts are made of
DisplayPieces == <<<<"a">>, <<" ">>, Tag("1"), Tag("3"), <<"LF">>>>

RECURSIVE Concat(_)
Concat(ps) == IF ps = <<>> THEN <<>> ELSE DisplayPieces[Head(ps)] \o Concat(Tail(ps))

\* "a [MODE:1] b [MODE:3]"
ExampleText ==
    <<"a", " ">> \o Tag("1") \o <<" ", "b", " ">> \o Tag("3")

\* the texts a model may produce
DisplayTexts ==
    {Concat(ps) : ps \in UNION {[1..n -> 1..Len(DisplayPieces)] : n \in 0..MaxPieces}}
    \cup {ExampleText}

\* the message of the turn: "hello"
DisplayInput == Vocabulary[12]

\* the listing raises, or lists gpt-4o alone
DisplayListings ==
    {[raised |-> TRUE, ids |-> {}], [raised |-> FALSE, ids |-> {"gpt-4o"}]}

DisplayInit == ResolverInit /\ TurnInit /\ SessionInit

DisplayNext ==
    \/ \E m \in Range(MODES), l \in DisplayListings :
          messages = <<>> /\ Submit(DisplayInput, m, l)
    \/ ListModelsFrom(DisplayListings) /\ UNCHANGED <<turnVars, sessionVars>>
    \/ BuildOrder /\ UNCHANGED <<turnVars, sessionVars>>
    \/ (\E kind \in FailKinds : AttemptFail(kind)) /\ UNCHANGED <<turnVars, sessionVars>>
    \/ (\E content \in DisplayTexts : AttemptOk(content)) /\ UNCHANGED <<turnVars, sessionVars>>
    \/ Exhausted /\ UNCHANGED <<turnVars, sessionVars>>
    \/ Finish

SpecDisplay == DisplayInit /\ [][DisplayNext]_vars

(***************************************************************************)
(* Properties of the display text                                          *)
(***************************************************************************)
Digits == {"0", "1", "2", "3", "4", "5", "6", "7", "8", "9"}

\* s holds a tag-shaped substring [MODE:d] at place i
TagAt(s, i) ==
    /\ i >= 1
    /\ i + 7 <= Len(s)
    /\ SubSeq(s, i, i + 5) = <<"[", "M", "O", "D", "E", ":">>
    /\ s[i + 6] \in Digits
    /\ s[i + 7] = "]"

\* the places of the tag-shaped substrings of s
TagPlaces(s) == {i \in 1..Len(s) : TagAt(s, i)}

\* s with every tag-shaped substring removed
RECURSIVE WithoutTags(_)
WithoutTags(s) ==
    IF s = <<>> THEN <<>>
    ELSE IF TagAt(s, 1) THEN WithoutTags(SubSeq(s, 9, Len(s)))
    ELSE <<Head(s)>> \o WithoutTags(Tail(s))

\* the places of s that hold no whitespace
InkPlaces(s) == {i \in 1..Len(s) : ~IsSpace(s[i])}

Greatest(S) == CHOOSE n \in S : \A m \in S : m <= n

\* s from its first to its last character that is no whitespace
Trimmed(s) ==
    IF InkPlaces(s) = {} THEN <<>>
    ELSE SubSeq(s, Least(InkPlaces(s)), Greatest(InkPlaces(s)))

\* a turn is over whose reply a model generated
TurnShownFromModel ==
    /\ pc = "idle"
    /\ messages # <<>>
    /\ OkAttempts # {}

\* the text the last successful call generated
Generated == attempts[Len(attempts)].content

\* the text shown and stored for the turn
Shown == messages[Len(messages)].content

SessionInputs == {Vocabulary[4], Vocabulary[7]}

\* the listing raises, or lists gpt-4o-mini alone
SessionListings ==
    {[raised |-> TRUE, ids |-> {}], [raised |-> FALSE, ids |-> {"gpt-4o-mini"}]}

\* the models the API key of the session can reach; create() raises for the others
SessionModels == {"gpt-4o", "gpt-4o-mini"}

\* the text a model produces in a session
SessionTexts == {<<" ", "h", "i", "LF">>}

\* the loop is at a candidate the API key can reach
Reached ==
    /\ pc = "loop"
    /\ idx <= Len(trial_order)
    /\ trial_order[idx] \in SessionModels

\* a script run without a submitted message (the page is loaded, or a widget
\* was used): the sidebar is drawn again, the handler is skipped
Rerun(m, l) ==
    /\ pc = "idle"
    /\ mode' = m
    /\ cache' = IF cache.valid THEN cache
                ELSE [valid |-> TRUE, value |-> list_available_models_safely(l), listing |-> l]
    /\ sidebar_info' = SidebarInfo(last_used_model)
    /\ UNCHANGED <<messages, log, last_used_model, case_formulation, turnVars>>
    /\ UNCHANGED <<pc, available, trial_order, idx, used_model, attempts, result, listing>>

Init == ResolverInit /\ TurnInit /\ SessionInit

Next ==
    \/ \E input \in SessionInputs, m \in Range(MODES), l \in SessionListings :
          Len(log) < MaxTurns /\ Submit(input, m, l)
    \/ \E m \in Range(MODES), l \in SessionListings : Rerun(m, l)
    \/ ListModelsFrom(SessionListings) /\ UNCHANGED <<turnVars, sessionVars>>
    \/ BuildOrder /\ UNCHANGED <<turnVars, sessionVars>>
    \/ AttemptFail("raise") /\ UNCHANGED <<turnVars, sessionVars>>
    \/ Reached /\ AttemptFail("nocontent") /\ UNCHANGED <<turnVars, sessionVars>>
    \/ Reached /\ (\E content \in SessionTexts : AttemptOk(content))
               /\ UNCHANGED <<turnVars, sessionVars>>
    \/ Exhausted /\ UNCHANGED <<turnVars, sessionVars>>
    \/ Finish

Spec == Init /\ [][Next]_vars

(***************************************************************************)
(* Properties of a session                                                 *)
(***************************************************************************)
\* a script run that processed a user message has ended
TurnDone ==
    /\ pc = "idle"
    /\ log # <<>>

\* the log entry of the last completed turn
LastEntry == log[Len(log)]

\* the candidate that produced the reply of the last turn, None when none did
Producer == IF OkAttempts = {} THEN None ELSE attempts[Len(attempts)].model

\* C11: in the script run that processes a user message, the sidebar field
\* "Model used (this turn)" shows the model that produced that turn's reply, and
\* "No reply yet" only when no model has produced a reply.
C11_SidebarShowsThisTurnsModel ==
    TurnDone =>
        /\ Producer # None => sidebar_info = Producer
        /\ sidebar_info = NoReplyYet => Producer = None

\* s is t, or t with entries appended
IsPrefix(t, s) ==
    /\ Len(t) <= Len(s)
    /\ SubSeq(s, 1, Len(t)) = t

\* the transcript alternates user and assistant entries, starting with the user
Alternating ==
    \A i \in 1..Len(messages) :
        messages[i].role = IF i % 2 = 1 THEN "user" ELSE "assistant"

\* log entry k was made for the k-th pair of the transcript: its labels are those
\* of the k-th user message
InStep(k) ==
    LET text == messages[2 * k - 1].content
    IN  /\ log[k].emotion = detect_emotion(text)
        /\ log[k].intent = analyze_intent_and_risk(text).intent
        /\ log[k].risk_score = analyze_intent_and_risk(text).risk_score

\* the transcript and the log between and within turns; the entry a turn logs
\* is in step when the turn ends, and no later step changes it or its messages
TranscriptInStep ==
    /\ Alternating
    /\ Len(messages) = 2 * Len(log) + (IF pc = "idle" THEN 0 ELSE 1)
    /\ TurnDone => InStep(Len(log))

\* a step of safe_chat_completion is taken
InResolver == pc \in {"call", "listed", "loop"}

\* C12: the transcript is append-only and in step with the log: messages
\* alternates user and assistant entries in turn order, after every completed
\* turn in either mode (all-fail turns included) len(messages) = 2 * len(log)
\* with one log entry per turn, no step removes or changes an earlier entry of
\* messages or log, and no step of the resolver appends to either.
C12_TranscriptAppendOnlyInStep ==
    /\ []TranscriptInStep
    /\ [][IsPrefix(messages, messages') /\ IsPrefix(log, log')]_vars
    /\ [][InResolver => (messages' = messages /\ log' = log)]_vars

\* C12 witness: two turns are over, one in each mode, the first answered by the
\* fallback text and the second by a model
C12_Witness ==
    /\ TurnDone
    /\ Len(log) = 2
    /\ Len(messages) = 4
    /\ log[1].mode # log[2].mode
    /\ messages[2].content = friendly
    /\ messages[4].content # friendly
    /\ messages[1].content # messages[3].content

\* C13: after every completed turn, last_used_model and the model_used of the
\* turn's log entry are the candidate that produced the turn's reply, or None
\* when every candidate failed (a model left by an earlier turn is not kept), and
\* in the all-fail case the assistant message appended is the fallback text.
C13_ModelRecordedOrNone ==
    TurnDone =>
        /\ last_used_model = Producer
        /\ LastEntry.model_used = Producer
        /\ Producer = None => messages[Len(messages)].content = friendly

\* the lists of a case formulation
Fields == {"themes", "patterns", "hypotheses"}

NoDup(list) == \A i, j \in 1..Len(list) : i # j => list[i] # list[j]

\* every list of cf holds no item twice
DuplicateFree(cf) == \A f \in Fields : NoDup(cf[f])

\* every item of every list of old is in the same list of new
Keeps(old, new) == \A f \in Fields : Range(old[f]) \subseteq Range(new[f])

\* the step starts a turn: the handler takes a submitted message
TurnStarts == pc = "idle" /\ pc' = "call"

\* C14: the working case formulation only accumulates: after a Counselor-mode
\* turn themes, patterns and hypotheses each hold every item they held before and
\* no item twice; a Companion-mode turn, and every other step, leaves
\* st.session_state.case_formulation as it was.
C14_FormulationAccumulates ==
    /\ []DuplicateFree(case_formulation)
    /\ [][Keeps(case_formulation, case_formulation')]_vars
    /\ [][(~TurnStarts \/ ~IsCounselor(mode')) => case_formulation' = case_formulation]_vars

\* C14 witness: two Counselor-mode turns are over; the second added a theme and a
\* hypothesis and kept both patterns of the first, in another order
C14_Witness ==
    /\ TurnDone
    /\ Len(log) = 2
    /\ log[1].mode = "counselor"
    /\ log[2].mode = "counselor"
    /\ Len(log[1].case_formulation.patterns) = 2
    /\ log[1].case_formulation.themes = <<>>
    /\ Len(log[2].case_formulation.themes) = 1
    /\ log[2].case_formulation.patterns # log[1].case_formulation.patterns
    /\ Range(log[2].case_formulation.patterns) = Range(log[1].case_formulation.patterns)
    /\ case_formulation = log[2].case_formulation

(***************************************************************************)
(* The router is total                                                     *)
(***************************************************************************)
\* C15: for every emotion and intent the classifiers return, and for labels the
\* router does not know (served by the neutral / venting defaults), the pool is
\* not empty and each of its keys is a key of INTERVENTIONS: choose_intervention
\* does not fail on an empty pool and INTERVENTIONS[intervention_key] in
\* generate_counselor_reply does not fail.
C15_RouterTotal ==
    /\ pc # "raised"
    /\ pc \in {"classified", "given"} =>
          /\ RouterPool(emotion, intent) # <<>>
          /\ Range(RouterPool(emotion, intent)) \subseteq INTERVENTION_KEYS
          /\ choose_intervention(emotion, intent, risk_score) # {}
    /\ pc \in {"chosen", "found"} =>
          /\ intervention_key \in Range(RouterPool(emotion, intent))
          /\ intervention_key \in INTERVENTION_KEYS

\* C15 witness: neither label is known to the router, a key of the neutral /
\* venting pool was chosen and its module was found
C15_Witness ==
    /\ pc = "found"
    /\ emotion = Unknown
    /\ intent = Unknown
    /\ intervention_key \in Range(INTERVENTION_ROUTER["neutral"]["venting"])

====
